---- MODULE Spec2Model ----
(***************************************************************************)
(* A model of the elton body parser middleware (body_parser.go, the        *)
(* Decoder/maxBytesReader revision): the bounded reader, the built-in      *)
(* decoders and the handler returned by New.                               *)
(*                                                                         *)
(* Byte strings are run-length encoded: a sequence of runs [b, n], n >= 1, *)
(* adjacent runs holding different bytes.  A 50 KiB body is then a short   *)
(* sequence, and the default limit keeps the value the source gives it.    *)
(***************************************************************************)
EXTENDS Integers, Sequences, FiniteSets, TLC

\* ------------------------------------------------------------ bounds
\* longest plain body, in bytes, the request stream is drawn with
MaxBodyLen == 2
\* longest configured decoder list
MaxDecoders == 2
\* largest explicit Config.Limit drawn (besides -1 and 0)
MaxLimit == 1
\* invocations of the handler on the one request
MaxInvocations == 2
\* Read calls per invocation that may be short; later ones fill the buffer
MaxShortReads == 2
\* longest input of the decoder unit specifications
MaxInputLen == 3
\* most '&'-separated pairs of a URL-encoded payload
MaxPairs == 3
\* largest limit a maxBytesReader on its own is created with
MaxReaderLimit == 2
\* longest stream under a maxBytesReader on its own, in bytes
MaxStreamLen == 4
\* Read calls on a maxBytesReader on its own
MaxReadCalls == 4

\* ------------------------------------------------------------ byte strings
Min(a, b) == IF a < b THEN a ELSE b

Run(b, n) == [b |-> b, n |-> n]

\* the byte string holding the bytes of the tuple s, one run each, merged
RECURSIVE Norm(_)
Norm(s) ==
  IF Len(s) <= 1 THEN s
  ELSE LET r == Norm(Tail(s)) IN
       IF r[1].b = s[1].b
       THEN <<Run(s[1].b, s[1].n + r[1].n)>> \o Tail(r)
       ELSE <<s[1]>> \o r

\* concatenation (append): the boundary runs merge when they hold the same byte
BCat(x, y) ==
  IF x = <<>> THEN y
  ELSE IF y = <<>> THEN x
  ELSE IF x[Len(x)].b = y[1].b
       THEN SubSeq(x, 1, Len(x) - 1)
            \o <<Run(y[1].b, x[Len(x)].n + y[1].n)>>
            \o Tail(y)
       ELSE x \o y

\* len(s)
RECURSIVE BLen(_)
BLen(s) == IF s = <<>> THEN 0 ELSE s[1].n + BLen(Tail(s))

\* s[:k]
RECURSIVE BTake(_, _)
BTake(s, k) ==
  IF k <= 0 \/ s = <<>> THEN <<>>
  ELSE IF s[1].n <= k THEN <<s[1]>> \o BTake(Tail(s), k - s[1].n)
  ELSE <<Run(s[1].b, k)>>

\* s[k:]
RECURSIVE BDrop(_, _)
BDrop(s, k) ==
  IF k <= 0 \/ s = <<>> THEN s
  ELSE IF s[1].n <= k THEN BDrop(Tail(s), k - s[1].n)
  ELSE <<Run(s[1].b, s[1].n - k)>> \o Tail(s)

\* the byte string of a tuple of bytes
Bytes(t) == Norm([i \in 1..Len(t) |-> Run(t[i], 1)])

\* all tuples over S of length at most n
TuplesUpTo(S, n) == UNION {[1..k -> S] : k \in 0..n}

\* a Go byte slice: nil, or a (possibly empty) byte string
NilSlice == [isNil |-> TRUE, data |-> <<>>]
Slice(b) == [isNil |-> FALSE, data |-> b]

\* ------------------------------------------------------------ errors
\* fmt.Sprintf / fmt.Errorf: the format and its arguments, kept apart
Sprintf(format, args) == <<format>> \o args

NoErr == [kind |-> "nil"]
\* an error that is no *hes.Error (io.EOF, fmt.Errorf, compress/gzip errors)
RawErr(text) == [kind |-> "raw", text |-> text]
\* e.Error() of such an error
ErrorText(e) == e.text

EOF == RawErr(<<"EOF">>)
\* what a failing body stream returns
ErrStream == RawErr(<<"read: connection reset">>)
\* what the continuation may return
ErrDownstream == RawErr(<<"downstream failed">>)

ErrCategory == "elton-body-parser"
StatusBadRequest == 400
StatusInternalServerError == 500
defaultRequestBodyLimit == 50 * 1024

\* a *hes.Error
HesError(category, message, status, exception, cause) ==
  [kind |-> "hes", Category |-> category, Message |-> message,
   StatusCode |-> status, Exception |-> exception, Err |-> cause]

errInvalidJSON ==
  HesError(ErrCategory, <<"invalid json format">>, StatusBadRequest, FALSE,
           NoErr)

jsonBytes == <<"{", "}", "[", "]">>

\* ------------------------------------------------------------ header values
jsonContentType ==
  <<"a","p","p","l","i","c","a","t","i","o","n","/","j","s","o","n">>
formURLEncodedContentType ==
  <<"a","p","p","l","i","c","a","t","i","o","n","/","x","-","w","w","w","-",
    "f","o","r","m","-","u","r","l","e","n","c","o","d","e","d">>
Gzip == "gzip"

\* strings.Split(s, sep)[0]: s up to its first sep, all of s when it has none
RECURSIVE SplitFirst(_, _)
SplitFirst(s, sep) ==
  IF s = <<>> \/ s[1] = sep THEN <<>>
  ELSE <<s[1]>> \o SplitFirst(Tail(s), sep)

\* strings.HasPrefix(s, prefix)
HasPrefix(s, prefix) ==
  Len(s) >= Len(prefix) /\ SubSeq(s, 1, Len(prefix)) = prefix

\* ------------------------------------------------------------ gzip
\* A gzip member, as far as doGunzip tells members apart: the 10 header
\* bytes, a stored deflate block (5 bytes of block header, then the
\* payload), and the 8 trailer bytes.
GzipHeader == <<Run("gz-header", 10)>>
GzipBlock == <<Run("deflate-stored", 5)>>
GzipTrailer == <<Run("gz-trailer", 8)>>
GzipFraming == {"gz-header", "deflate-stored", "gz-trailer"}

Compress(b) == BCat(BCat(BCat(GzipHeader, GzipBlock), b), GzipTrailer)

ErrGzipHeader == RawErr(<<"gzip: invalid header">>)
ErrUnexpectedEOF == RawErr(<<"unexpected EOF">>)

\* doGunzip: gzip.NewReader fails on a bad header; ReadAll fails on a
\* stream cut short and returns what it had read
doGunzip(buf) ==
  IF BTake(buf, 10) # GzipHeader
  THEN [data |-> NilSlice,
        err |-> IF BLen(buf) < 10 THEN ErrUnexpectedEOF ELSE ErrGzipHeader]
  ELSE LET body == BDrop(buf, 10)
           n == BLen(body) IN
       IF BTake(body, 5) # GzipBlock
       THEN [data |-> Slice(<<>>), err |-> ErrUnexpectedEOF]
       ELSE IF n < 13 \/ BDrop(body, n - 8) # GzipTrailer
       THEN [data |-> Slice(BDrop(body, 5)), err |-> ErrUnexpectedEOF]
       ELSE [data |-> Slice(BDrop(BTake(body, n - 8), 5)), err |-> NoErr]

\* ------------------------------------------------------------ JSON decoder
Whitespace == {" ", "\t", "\n", "\r"}

\* bytes.TrimSpace
RECURSIVE TrimLeft(_)
TrimLeft(s) ==
  IF s # <<>> /\ s[1].b \in Whitespace THEN TrimLeft(Tail(s)) ELSE s
RECURSIVE TrimRight(_)
TrimRight(s) ==
  IF s # <<>> /\ s[Len(s)].b \in Whitespace
  THEN TrimRight(SubSeq(s, 1, Len(s) - 1)) ELSE s
TrimSpace(s) == TrimRight(TrimLeft(s))

\* the decoder without the test of the closer of '['
JSONDecodeNoBracketTest(originalData) ==
  LET trimmed == TrimSpace(originalData) IN
  IF BLen(trimmed) = 0 THEN [data |-> NilSlice, err |-> NoErr]
  ELSE LET firstByte == trimmed[1].b
           lastByte == trimmed[Len(trimmed)].b IN
       IF firstByte # jsonBytes[1] /\ firstByte # jsonBytes[3]
       THEN [data |-> NilSlice, err |-> errInvalidJSON]
       ELSE IF firstByte = jsonBytes[1] /\ lastByte # jsonBytes[2]
       THEN [data |-> NilSlice, err |-> errInvalidJSON]
       ELSE [data |-> Slice(trimmed), err |-> NoErr]

\* NewJSONDecoder().Decode
JSONDecode(originalData) ==
  LET trimmed == TrimSpace(originalData) IN
  IF BLen(trimmed) = 0 THEN [data |-> NilSlice, err |-> NoErr]
  ELSE LET firstByte == trimmed[1].b
           lastByte == trimmed[Len(trimmed)].b IN
       IF firstByte # jsonBytes[1] /\ firstByte # jsonBytes[3]
       THEN [data |-> NilSlice, err |-> errInvalidJSON]
       ELSE IF firstByte = jsonBytes[1] /\ lastByte # jsonBytes[2]
       THEN [data |-> NilSlice, err |-> errInvalidJSON]
       ELSE IF firstByte = jsonBytes[3] /\ lastByte # jsonBytes[4]
       THEN [data |-> NilSlice, err |-> errInvalidJSON]
       ELSE [data |-> Slice(trimmed), err |-> NoErr]

\* NewJSONDecoder().Validate
JSONValidate(req) == SplitFirst(req.ContentType, ";") = jsonContentType

\* ------------------------------------------------------------ form decoder
\* string(originalData): the bytes one by one
RECURSIVE Expand(_)
Expand(s) ==
  IF s = <<>> THEN <<>>
  ELSE [i \in 1..s[1].n |-> s[1].b] \o Expand(Tail(s))

\* strings.Index(s, c) + 1: the place of the first c in s, 0 when s has none
RECURSIVE Index(_, _)
Index(s, c) ==
  IF s = <<>> THEN 0
  ELSE IF s[1] = c THEN 1
  ELSE LET r == Index(Tail(s), c) IN IF r = 0 THEN 0 ELSE r + 1

\* the two halves of s around its first c (all of s and "" when it has none)
CutBefore(s, c) == IF Index(s, c) = 0 THEN s ELSE SubSeq(s, 1, Index(s, c) - 1)
CutAfter(s, c) ==
  IF Index(s, c) = 0 THEN <<>> ELSE SubSeq(s, Index(s, c) + 1, Len(s))

HexDigits ==
  {"0", "1", "2", "3", "4", "5", "6", "7", "8", "9",
   "a", "b", "c", "d", "e", "f", "A", "B", "C", "D", "E", "F"}

\* the byte a percent escape stands for, for the escapes the payloads use
PercentByte(h) ==
  CASE h = <<"2", "2">> -> "\""
    [] h = <<"2", "6">> -> "&"
    [] h = <<"6", "2">> -> "b"
    [] h = <<"6", "6">> -> "f"
    [] OTHER -> "other"

\* url.QueryUnescape, first pass: the first invalid escape of s, "" when
\* every escape is valid
RECURSIVE BadEscape(_)
BadEscape(s) ==
  IF s = <<>> THEN <<>>
  ELSE IF s[1] = "%"
  THEN IF Len(s) < 3 \/ s[2] \notin HexDigits \/ s[3] \notin HexDigits
       THEN SubSeq(s, 1, Min(3, Len(s)))
       ELSE BadEscape(SubSeq(s, 4, Len(s)))
  ELSE BadEscape(Tail(s))

\* url.QueryUnescape, second pass: escapes decoded, '+' turned into a space
RECURSIVE Unescape(_)
Unescape(s) ==
  IF s = <<>> THEN <<>>
  ELSE IF s[1] = "%"
  THEN <<PercentByte(<<s[2], s[3]>>)>> \o Unescape(SubSeq(s, 4, Len(s)))
  ELSE IF s[1] = "+" THEN <<" ">> \o Unescape(Tail(s))
  ELSE <<s[1]>> \o Unescape(Tail(s))

QueryUnescape(s) ==
  IF BadEscape(s) # <<>>
  THEN [s |-> <<>>,
        err |-> RawErr(Sprintf("invalid URL escape %q", <<BadEscape(s)>>))]
  ELSE [s |-> Unescape(s), err |-> NoErr]

\* m[key] = append(m[key], value)
Put(m, key, value) ==
  IF key \in DOMAIN m THEN [m EXCEPT ![key] = Append(@, value)]
  ELSE [k \in DOMAIN m \cup {key} |-> IF k = key THEN <<value>> ELSE m[k]]

\* url.ParseQuery: the '&'-separated pairs of query put into the map m, the
\* pairs with an invalid escape left out and the first such error kept
RECURSIVE ParseQuery(_, _, _)
ParseQuery(m, e, query) ==
  IF query = <<>> THEN [m |-> m, err |-> e]
  ELSE LET pair == CutBefore(query, "&")
           rest == CutAfter(query, "&")
       IN
       IF pair = <<>> THEN ParseQuery(m, e, rest)
       ELSE LET key == QueryUnescape(CutBefore(pair, "="))
                value == QueryUnescape(CutAfter(pair, "="))
            IN
            IF key.err # NoErr
            THEN ParseQuery(m, IF e = NoErr THEN key.err ELSE e, rest)
            ELSE IF value.err # NoErr
            THEN ParseQuery(m, IF e = NoErr THEN value.err ELSE e, rest)
            ELSE ParseQuery(Put(m, key.s, value.s), e, rest)

\* strings.Join
RECURSIVE Join(_, _)
Join(parts, sep) ==
  IF parts = <<>> THEN <<>>
  ELSE IF Len(parts) = 1 THEN parts[1]
  ELSE parts[1] \o <<sep>> \o Join(Tail(parts), sep)

Quote == "\""

\* one element of arr: "key":"value", or "key":["v1","v2"]
Member(key, values) ==
  IF Len(values) < 2
  THEN <<Quote>> \o key \o <<Quote, ":", Quote>> \o values[1] \o <<Quote>>
  ELSE <<Quote>> \o key \o <<Quote, ":", "[">>
       \o Join([i \in 1..Len(values) |-> <<Quote>> \o values[i] \o <<Quote>>],
               ",")
       \o <<"]">>

\* the orders in which a range over a map with the keys K may visit them
Orders(K) ==
  {o \in [1..Cardinality(K) -> K] : \A i, j \in DOMAIN o : o[i] = o[j] => i = j}

\* hes.Wrap(err) of an error that is no *hes.Error, then he.Exception = true
WrapException(e) == HesError("", ErrorText(e), StatusBadRequest, TRUE, e)

\* NewFormURLEncodedDecoder().Decode: one outcome for each order the range
\* over urlValues may take; order is that order
FormDecode(originalData) ==
  LET p == ParseQuery([k \in {} |-> <<>>], NoErr, Expand(originalData)) IN
  IF p.err # NoErr
  THEN {[data |-> NilSlice, err |-> WrapException(p.err), order |-> <<>>]}
  ELSE {[data |-> Slice(Bytes(<<"{">>
                               \o Join([i \in DOMAIN o |->
                                          Member(o[i], p.m[o[i]])], ",")
                               \o <<"}">>)),
          err |-> NoErr, order |-> o] : o \in Orders(DOMAIN p.m)}

\* NewFormURLEncodedDecoder().Validate
FormValidate(req) ==
  SplitFirst(req.ContentType, ";") = formURLEncodedContentType

\* NewGzipDecoder().Validate
GzipValidate(req) == req.ContentEncoding = Gzip

\* Decoder.Validate of the decoder of the given kind
Validate(kind, req) ==
  CASE kind = "gzip" -> GzipValidate(req)
    [] kind = "json" -> JSONValidate(req)
    [] kind = "form" -> FormValidate(req)

\* a gzip decoder that leaves the Content-Encoding header as it is
GzipDecodeKeepHeader(req, originalData) ==
  LET r == doGunzip(originalData) IN
  [data |-> r.data, err |-> r.err, req |-> req]
\* NewGzipDecoder().Decode: the header is cleared, then the bytes gunzipped
GzipDecode(req, originalData) ==
  LET r == doGunzip(originalData) IN
  [data |-> r.data, err |-> r.err,
   req |-> [req EXCEPT !.ContentEncoding = ""]]

\* Decoder.Decode of the gzip or the JSON decoder: the bytes, the error and
\* the request headers it leaves
Decode(kind, req, originalData) ==
  CASE kind = "gzip" -> GzipDecode(req, originalData)
    [] kind = "json" ->
         LET r == JSONDecode(originalData) IN
         [data |-> r.data, err |-> r.err, req |-> req]

\* Decoder.Decode of the decoder of the given kind: every outcome it may
\* have (the form decoder ranges over a map)
Decodes(kind, req, originalData) ==
  IF kind = "form"
  THEN {[data |-> r.data, err |-> r.err, req |-> req, order |-> r.order] :
          r \in FormDecode(originalData)}
  ELSE {[data |-> d.data, err |-> d.err, req |-> d.req, order |-> <<>>] :
          d \in {Decode(kind, req, originalData)}}

\* DefaultJSONContentTypeValidate
DefaultJSONContentTypeValidate(req) == HasPrefix(req.ContentType, jsonContentType)

\* DefaultJSONAndFormContentTypeValidate
DefaultJSONAndFormContentTypeValidate(req) ==
  IF HasPrefix(req.ContentType, jsonContentType) THEN TRUE
  ELSE HasPrefix(req.ContentType, formURLEncodedContentType)

\* the Config NewDefault hands to New: Config{} with the gzip decoder and
\* the JSON decoder added, in this order
NewDefault ==
  [Limit |-> 0, Decoders |-> <<"gzip", "json">>, Skipper |-> "nil",
   ContentTypeValidate |-> "nil"]

\* ------------------------------------------------------------ the body stream
\* The sizes of the chunks a Read may deliver when m bytes could be served.
ChunkSizes(m, shortOk) == IF shortOk THEN {k \in {1, 2, m} : k <= m} ELSE {m}

\* Request.Body.Read(p) with len(p) = plen >= 1 on the stream holding data:
\* some bytes (the last ones possibly together with io.EOF), io.EOF at the
\* end, or a failure of the stream.
StreamRead(data, plen, shortOk) ==
  LET m == Min(plen, BLen(data)) IN
  (IF m = 0
   THEN {[data |-> <<>>, err |-> EOF, rest |-> data]}
   ELSE {[data |-> BTake(data, k), err |-> e, rest |-> BDrop(data, k)] :
           k \in ChunkSizes(m, shortOk), e \in {NoErr}}
        \cup {[data |-> data, err |-> EOF, rest |-> <<>>] : k \in {m} \cap {BLen(data)}})
  \cup {[data |-> <<>>, err |-> ErrStream, rest |-> data]}

\* ------------------------------------------------------------ maxBytesReader
ErrTooLarge(n) ==
  RawErr(Sprintf("request body is too large, it should be <= %d", <<n>>))

\* MaxBytesReader(r, n)
MaxBytesReader(n) == [wrapped |-> TRUE, n |-> n, err |-> NoErr]
\* the raw stream used as the reader (limit <= 0)
RawReader == [wrapped |-> FALSE, n |-> 0, err |-> NoErr]

\* a reader without the test of the sticky error
MaxBytesReadNoSticky(lr, data, plen, shortOk) ==
  IF plen = 0
  THEN {[data |-> <<>>, err |-> NoErr, l |-> lr, rest |-> data, asked |-> 0,
         under |-> NoErr]}
  ELSE LET q == IF plen > lr.n + 1 THEN lr.n + 1 ELSE plen IN
       {IF BLen(o.data) <= lr.n
        THEN [data |-> o.data, err |-> o.err,
              l |-> [lr EXCEPT !.n = lr.n - BLen(o.data), !.err = o.err],
              rest |-> o.rest, asked |-> q, under |-> o.err]
        ELSE [data |-> BTake(o.data, lr.n), err |-> ErrTooLarge(lr.n),
              l |-> [lr EXCEPT !.n = 0, !.err = ErrTooLarge(lr.n)],
              rest |-> o.rest, asked |-> q, under |-> o.err] :
        o \in StreamRead(data, q, shortOk)}

\* a reader that hands the whole buffer to the underlying Read
MaxBytesReadNoClip(lr, data, plen, shortOk) ==
  IF lr.err # NoErr
  THEN {[data |-> <<>>, err |-> lr.err, l |-> lr, rest |-> data, asked |-> 0,
         under |-> NoErr]}
  ELSE IF plen = 0
  THEN {[data |-> <<>>, err |-> NoErr, l |-> lr, rest |-> data, asked |-> 0,
         under |-> NoErr]}
  ELSE {IF BLen(o.data) <= lr.n
        THEN [data |-> o.data, err |-> o.err,
              l |-> [lr EXCEPT !.n = lr.n - BLen(o.data), !.err = o.err],
              rest |-> o.rest, asked |-> plen, under |-> o.err]
        ELSE [data |-> BTake(o.data, lr.n), err |-> ErrTooLarge(lr.n),
              l |-> [lr EXCEPT !.n = 0, !.err = ErrTooLarge(lr.n)],
              rest |-> o.rest, asked |-> plen, under |-> o.err] :
        o \in StreamRead(data, plen, shortOk)}

\* a reader that passes on whatever the underlying Read returned
MaxBytesReadNoOverflowTest(lr, data, plen, shortOk) ==
  IF lr.err # NoErr
  THEN {[data |-> <<>>, err |-> lr.err, l |-> lr, rest |-> data, asked |-> 0,
         under |-> NoErr]}
  ELSE IF plen = 0
  THEN {[data |-> <<>>, err |-> NoErr, l |-> lr, rest |-> data, asked |-> 0,
         under |-> NoErr]}
  ELSE LET q == IF plen > lr.n + 1 THEN lr.n + 1 ELSE plen IN
       {[data |-> o.data, err |-> o.err,
         l |-> [lr EXCEPT !.n = lr.n - BLen(o.data), !.err = o.err],
         rest |-> o.rest, asked |-> q, under |-> o.err] :
        o \in StreamRead(data, q, shortOk)}

\* maxBytesReader.Read(p), len(p) = plen, over the stream holding data: every
\* outcome the underlying Read allows.  asked is the length of the buffer
\* handed to the underlying Read (0: it was not called) and under the error
\* the underlying Read returned.
MaxBytesRead(lr, data, plen, shortOk) ==
  IF lr.err # NoErr
  THEN {[data |-> <<>>, err |-> lr.err, l |-> lr, rest |-> data, asked |-> 0,
         under |-> NoErr]}
  ELSE IF plen = 0
  THEN {[data |-> <<>>, err |-> NoErr, l |-> lr, rest |-> data, asked |-> 0,
         under |-> NoErr]}
  ELSE LET q == IF plen > lr.n + 1 THEN lr.n + 1 ELSE plen IN
       {IF BLen(o.data) <= lr.n
        THEN [data |-> o.data, err |-> o.err,
              l |-> [lr EXCEPT !.n = lr.n - BLen(o.data), !.err = o.err],
              rest |-> o.rest, asked |-> q, under |-> o.err]
        ELSE [data |-> BTake(o.data, lr.n), err |-> ErrTooLarge(lr.n),
              l |-> [lr EXCEPT !.n = 0, !.err = ErrTooLarge(lr.n)],
              rest |-> o.rest, asked |-> q, under |-> o.err] :
        o \in StreamRead(data, q, shortOk)}

\* r.Read(p) of the reader the handler reads from
ReaderRead(lr, data, plen, shortOk) ==
  IF lr.wrapped THEN MaxBytesRead(lr, data, plen, shortOk)
  ELSE {[data |-> o.data, err |-> o.err, l |-> lr, rest |-> o.rest,
         asked |-> plen, under |-> o.err] :
          o \in StreamRead(data, plen, shortOk)}

\* c.Request.Body.Close()
BodyClose(s) == [s EXCEPT !.closed = @ + 1]

\* a maxBytesReader whose Close leaves the underlying stream open
ReaderCloseKeepsStream(lr, s) == IF lr.wrapped THEN s ELSE BodyClose(s)
\* r.Close() of the reader the handler reads from: maxBytesReader.Close
\* closes the underlying stream; without a limit r is the stream itself
ReaderClose(lr, s) == IF lr.wrapped THEN BodyClose(s) ELSE BodyClose(s)

\* ------------------------------------------------------------ the handler
validMethods == <<"POST", "PATCH", "PUT">>

\* the limit taken from the Config as it is, with no default
LimitNoDefault(conf) == conf.Limit
\* limit of New
Limit(conf) == IF conf.Limit # 0 THEN conf.Limit ELSE defaultRequestBodyLimit

\* skipper of New: elton.DefaultSkipper when Config.Skipper is nil
Skipper(conf, r) == IF conf.Skipper = "nil" THEN FALSE ELSE TRUE

\* contentTypeValidate of New
ContentTypeValidate(conf, r) ==
  IF conf.ContentTypeValidate = "nil" THEN DefaultJSONContentTypeValidate(r)
  ELSE DefaultJSONAndFormContentTypeValidate(r)

\* a handler that reads the body of every method
ValidMethodAny(method) == TRUE
\* the method loop of the handler
ValidMethod(method) == \E i \in 1..Len(validMethods) : validMethods[i] = method

\* the gate without the c.RequestBody != nil test
GatedNoBodyTest(conf, r, slot) ==
  \/ Skipper(conf, r) \/ ~ContentTypeValidate(conf, r)
  \/ ~ValidMethod(r.Method)
\* the conditions under which the handler only calls c.Next()
Gated(conf, r, slot) ==
  \/ Skipper(conf, r) \/ ~slot.isNil \/ ~ContentTypeValidate(conf, r)
  \/ ~ValidMethod(r.Method)

\* the decoder loop: the index of the decoder whose Decode is collected,
\* 0 when no Validate returns true
RECURSIVE SelectFrom(_, _, _)
SelectFrom(decoders, r, i) ==
  IF i > Len(decoders) THEN 0
  ELSE IF Validate(decoders[i], r) THEN i
  ELSE SelectFrom(decoders, r, i + 1)
\* the loop without its break: the last decoder that applies is the one left
RECURSIVE SelectLastFrom(_, _, _)
SelectLastFrom(decoders, r, i) ==
  IF i < 1 THEN 0
  ELSE IF Validate(decoders[i], r) THEN i
  ELSE SelectLastFrom(decoders, r, i - 1)
SelectDecoderNoBreak(decoders, r) == SelectLastFrom(decoders, r, Len(decoders))
SelectDecoder(decoders, r) == SelectFrom(decoders, r, 1)

\* the error of the handler for a failed ioutil.ReadAll
ReadError(e) ==
  HesError(ErrCategory, ErrorText(e), StatusInternalServerError, TRUE, e)

\* ioutil.ReadAll: io.EOF ends the read and is no error
ReadAllError(e) == IF e = EOF THEN NoErr ELSE e

\* a handler that never takes the error branch
FailedNever(e) == FALSE
\* line 476 and line 506: the handler returns on a non-nil error
Failed(e) == e # NoErr

VARIABLES
  config,       \* the Config given to New
  req,          \* the request: method and the two headers
  RequestBody,  \* c.RequestBody
  stream,       \* c.Request.Body: the bytes not yet read, the Close calls
  sent,         \* the bytes the stream held at first
  pc,           \* where the handler is
  l,            \* the reader r of the handler
  buf,          \* what ioutil.ReadAll has read so far
  err,          \* what the handler returned
  inv,          \* what the current invocation has done
  invocations,  \* invocations of the handler so far
  capturedAt,   \* the invocation that read the stream and returned nil
  unit,         \* a decoder called on its own: the call and its result
  workers       \* two requests in one handler: each worker's context

vars == <<config, req, RequestBody, stream, sent, pc, l, buf, err, inv,
          invocations, capturedAt, unit, workers>>

\* ------------------------------------------------------------ initial states
BodyAlphabet == {"{", "}", " "}
PlainBodies == {Bytes(t) : t \in TuplesUpTo(BodyAlphabet, MaxBodyLen)}
\* bodies at and just over the default limit
LargeBodies ==
  {BCat(BCat(Bytes(<<"{">>), <<Run(" ", k)>>), Bytes(<<"}">>)) :
     k \in {defaultRequestBodyLimit - 2, defaultRequestBodyLimit - 1}}
GzipBodies == {Compress(b) : b \in {Bytes(<<>>), Bytes(<<"{", "}">>)}}
Bodies == PlainBodies \cup LargeBodies \cup GzipBodies
\* the bodies drawn for a request the skipper skips or whose body was captured
\* upstream
SkippedBodies == {Bytes(<<>>), Bytes(<<"{", "}">>)}

DecoderKinds == {"gzip", "json"}
Methods == {"GET", "POST", "PUT", "PATCH"}
ContentTypes ==
  {<<>>, jsonContentType, jsonContentType \o <<"5">>, formURLEncodedContentType}
Configs ==
  [Limit : -1..MaxLimit,
   Decoders : TuplesUpTo(DecoderKinds, MaxDecoders),
   Skipper : {"nil", "always"},
   ContentTypeValidate : {"nil", "DefaultJSONAndFormContentTypeValidate"}]
Requests ==
  [Method : Methods, ContentType : ContentTypes, ContentEncoding : {"", Gzip}]
\* what c.Next() may return
NextResults == {NoErr, ErrDownstream}

\* the record of an invocation that has done nothing yet
NoInv(slot, r) ==
  [entrySlot |-> slot, entryReq |-> r, reading |-> FALSE, reads |-> 0,
   ioErr |-> FALSE, closes |-> 0, decoding |-> FALSE, validated |-> 0,
   decoded |-> <<>>, nextCalls |-> 0, slotAtNext |-> NilSlice,
   nextResult |-> NoErr]

NoUnit == [op |-> "none"]

Init ==
  /\ config \in Configs
  /\ req \in Requests
  /\ RequestBody \in {NilSlice, Slice(Bytes(<<"{">>))}
  /\ sent \in IF Skipper(config, req) \/ ~RequestBody.isNil
             THEN SkippedBodies ELSE Bodies
  /\ stream = [data |-> sent, closed |-> 0]
  /\ pc = "idle"
  /\ l = RawReader
  /\ buf = <<>>
  /\ err = NoErr
  /\ inv = NoInv(RequestBody, req)
  /\ invocations = 0
  /\ capturedAt = 0
  /\ unit = NoUnit
  /\ workers = <<>>

\* ------------------------------------------------------------ actions
\* c.Next(): the continuation runs once and the handler returns its result
CallNext(i, slot, n) ==
  \E e \in NextResults :
    /\ err' = e
    /\ inv' = [i EXCEPT !.nextCalls = @ + 1, !.slotAtNext = slot,
                        !.nextResult = e]
    /\ capturedAt' = IF i.reads > 0 /\ e = NoErr THEN n
                     ELSE capturedAt

\* lines 452-467: a gated request goes to the continuation at once
InvokeGated ==
  /\ pc = "idle"
  /\ Gated(config, req, RequestBody)
  /\ invocations' = invocations + 1
  /\ CallNext(NoInv(RequestBody, req), RequestBody, invocations + 1)
  /\ pc' = "returned"
  /\ UNCHANGED <<config, req, RequestBody, stream, sent, l, buf, unit, workers>>

\* lines 469-474: the reader is set up
InvokeRead ==
  /\ pc = "idle"
  /\ ~Gated(config, req, RequestBody)
  /\ l' = IF Limit(config) > 0 THEN MaxBytesReader(Limit(config)) ELSE RawReader
  /\ buf' = <<>>
  /\ err' = NoErr
  /\ inv' = [NoInv(RequestBody, req) EXCEPT !.reading = TRUE]
  /\ invocations' = invocations + 1
  /\ pc' = "reading"
  /\ UNCHANGED <<config, req, RequestBody, stream, sent, capturedAt, unit, workers>>

\* the lengths of the buffers ioutil.ReadAll reads into
LargeBuf == 2 * defaultRequestBodyLimit
BufSizes == {1, 2, LargeBuf}

\* line 475: one Read of ioutil.ReadAll; lines 476-488 once it has ended.
\* After MaxShortReads reads the buffer is large and the stream fills it.
ReadAll ==
  /\ pc = "reading"
  /\ \E plen \in IF inv.reads < MaxShortReads THEN BufSizes ELSE {LargeBuf} :
       \E o \in ReaderRead(l, stream.data, plen, inv.reads < MaxShortReads) :
         LET done == [inv EXCEPT !.reads = @ + (IF o.asked > 0 THEN 1 ELSE 0),
                                 !.ioErr = (o.err = ErrStream)]
             e == ReadAllError(o.err)
         IN
         /\ l' = o.l
         /\ buf' = BCat(buf, o.data)
         /\ IF o.err = NoErr
            THEN /\ pc' = "reading"
                 /\ inv' = done
                 /\ stream' = [stream EXCEPT !.data = o.rest]
                 /\ UNCHANGED <<RequestBody, err>>
            ELSE IF Failed(e)
            THEN /\ pc' = "returned"
                 /\ inv' = [done EXCEPT !.closes = @ + 1]
                 /\ stream' = ReaderClose(o.l, [stream EXCEPT !.data = o.rest])
                 /\ err' = ReadError(e)
                 /\ UNCHANGED RequestBody
            ELSE /\ pc' = "decoding"
                 /\ inv' = [done EXCEPT !.closes = @ + 1]
                 /\ stream' = BodyClose([stream EXCEPT !.data = o.rest])
                 /\ RequestBody' = Slice(buf')
                 /\ UNCHANGED err
  /\ UNCHANGED <<config, req, sent, invocations, capturedAt, unit, workers>>

\* lines 490-513, and the deferred r.Close()
DecodeBody ==
  /\ pc = "decoding"
  /\ LET sel == SelectDecoder(config.Decoders, req)
         i == [inv EXCEPT !.decoding = TRUE, !.closes = @ + 1,
                          !.validated = IF sel = 0 THEN Len(config.Decoders)
                                        ELSE sel,
                          !.decoded = IF sel = 0 THEN <<>> ELSE <<sel>>]
     IN
     IF sel = 0
     THEN /\ CallNext(i, RequestBody, invocations)
          /\ UNCHANGED <<req, RequestBody>>
     ELSE \E d \in Decodes(config.Decoders[sel], req, RequestBody.data) :
          /\ req' = d.req
          /\ IF Failed(d.err)
             THEN /\ err' = d.err
                  /\ inv' = i
                  /\ UNCHANGED <<RequestBody, capturedAt>>
             ELSE /\ RequestBody' = d.data
                  /\ CallNext(i, d.data, invocations)
  /\ stream' = ReaderClose(l, stream)
  /\ pc' = "returned"
  /\ UNCHANGED <<config, sent, l, buf, invocations, unit, workers>>

\* the host runs the handler again on the same context
Again ==
  /\ pc = "returned"
  /\ invocations < MaxInvocations
  /\ pc' = "idle"
  /\ UNCHANGED <<config, req, RequestBody, stream, sent, l, buf, err, inv,
                 invocations, capturedAt, unit, workers>>

Next == InvokeGated \/ InvokeRead \/ ReadAll \/ DecodeBody

\* one invocation of the handler, for every configuration and request
Spec == Init /\ [][Next]_vars

\* repeated invocations on one request, under the default skipper and gate
InitReentry ==
  /\ Init
  /\ config.Skipper = "nil"
  /\ config.ContentTypeValidate = "nil"
  /\ req.Method \in {"GET", "POST"}

NextReentry == Next \/ Again

SpecReentry == InitReentry /\ [][NextReentry]_vars

\* ------------------------------------------------------------ decoders alone
\* the handler's variables while a decoder is called on its own
Parked ==
  /\ config = [Limit |-> 0, Decoders |-> <<>>, Skipper |-> "nil",
               ContentTypeValidate |-> "nil"]
  /\ RequestBody = NilSlice
  /\ sent = <<>>
  /\ stream = [data |-> <<>>, closed |-> 0]
  /\ pc = "parked"
  /\ l = RawReader
  /\ buf = <<>>
  /\ err = NoErr
  /\ inv = NoInv(RequestBody, req)
  /\ invocations = 0
  /\ capturedAt = 0
  /\ workers = <<>>

JSONAlphabet == {"{", "}", "[", "]", " ", "\n", "a"}
UnitContentTypes ==
  ContentTypes
  \cup {jsonContentType \o <<";">>,
        jsonContentType \o <<";", " ", "c", "h", "a", "r", "s", "e", "t", "=",
                             "u", "t", "f", "-", "8">>,
        <<";">> \o jsonContentType}

InitJSON ==
  /\ req \in [Method : {"POST"}, ContentType : UnitContentTypes,
              ContentEncoding : {""}]
  /\ unit \in [op : {"json"}, input : TuplesUpTo(JSONAlphabet, MaxInputLen),
               done : {FALSE}, applies : {FALSE}, data : {NilSlice},
               err : {NoErr}]
  /\ Parked

\* jsonDecoder.Validate(c) and jsonDecoder.Decode(c, input)
JSONDecoderCall ==
  /\ unit.op = "json" /\ ~unit.done
  /\ LET d == Decode("json", req, Bytes(unit.input)) IN
     /\ unit' = [unit EXCEPT !.done = TRUE, !.applies = Validate("json", req),
                             !.data = d.data, !.err = d.err]
     /\ req' = d.req
  /\ UNCHANGED <<config, RequestBody, stream, sent, pc, l, buf, err, inv,
                 invocations, capturedAt, workers>>

SpecJSON == InitJSON /\ [][JSONDecoderCall]_vars

\* the URL-encoded decoder called on its own, twice on the same payload.
\* A payload is drawn as its pairs: an encoded key, an encoded value, and
\* whether the pair has its '='; the pair with neither is the empty pair of
\* "a=1&&b=2".  Payloads hold no ';', which Go releases treat differently.
FormKeys == {<<"a">>, <<"b">>, <<"%", "6", "2">>}
FormValues == {<<"1">>, <<"2">>, <<"%", "2", "2">>, <<"%", "2">>}
EmptyPair == [key |-> <<>>, value |-> <<>>, eq |-> FALSE]
FormPairs ==
  [key : FormKeys, value : FormValues, eq : {TRUE}]
  \cup {EmptyPair,
        [key |-> <<"a">>, value |-> <<>>, eq |-> FALSE],
        [key |-> <<"a">>, value |-> <<"+">>, eq |-> TRUE],
        [key |-> <<>>, value |-> <<"1">>, eq |-> TRUE]}

\* the text of a pair, and of a payload
PairText(p) == IF p.eq THEN p.key \o <<"=">> \o p.value ELSE p.key
Payload(pairs) == Join([i \in 1..Len(pairs) |-> PairText(pairs[i])], "&")

InitForm ==
  /\ req \in [Method : {"POST"},
              ContentType : {formURLEncodedContentType},
              ContentEncoding : {""}]
  /\ \E pairs \in TuplesUpTo(FormPairs, MaxPairs) :
       unit = [op |-> "form", pairs |-> pairs, input |-> Payload(pairs),
               applies |-> FALSE, results |-> <<>>]
  /\ Parked

\* formDecoder.Validate(c) and formDecoder.Decode(c, input)
FormDecoderCall ==
  /\ unit.op = "form" /\ Len(unit.results) < 2
  /\ \E d \in Decodes("form", req, Bytes(unit.input)) :
       /\ unit' = [unit EXCEPT
                     !.applies = Validate("form", req),
                     !.results = Append(@, [data |-> d.data, err |-> d.err,
                                            order |-> d.order])]
       /\ req' = d.req
  /\ UNCHANGED <<config, RequestBody, stream, sent, pc, l, buf, err, inv,
                 invocations, capturedAt, workers>>

SpecForm == InitForm /\ [][FormDecoderCall]_vars

\* the gzip decoder called on its own: on the compression of some bytes, on
\* that compression cut short, and on two bytes that are no gzip stream
ContentEncodings == {"", Gzip, "GZIP", "deflate"}
GzipInputKinds == {"compressed", "cut", "header", "two"}
GzipInput(kind, plain) ==
  CASE kind = "compressed" -> Compress(Bytes(plain))
    [] kind = "cut" ->
         BTake(Compress(Bytes(plain)), BLen(Compress(Bytes(plain))) - 1)
    [] kind = "header" -> GzipHeader
    [] kind = "two" -> Bytes(<<"a", "b">>)

InitGzip ==
  /\ req \in [Method : {"POST"}, ContentType : {jsonContentType},
              ContentEncoding : ContentEncodings]
  /\ \E kind \in GzipInputKinds, plain \in TuplesUpTo(BodyAlphabet, MaxInputLen) :
       unit = [op |-> "gzip", kind |-> kind, plain |-> plain,
               input |-> GzipInput(kind, plain), encoding |-> req.ContentEncoding,
               done |-> FALSE, applies |-> FALSE, data |-> NilSlice,
               err |-> NoErr]
  /\ Parked

\* gzipDecoder.Validate(c) and gzipDecoder.Decode(c, input)
GzipDecoderCall ==
  /\ unit.op = "gzip" /\ ~unit.done
  /\ \E d \in Decodes("gzip", req, unit.input) :
       /\ unit' = [unit EXCEPT !.done = TRUE, !.applies = Validate("gzip", req),
                               !.data = d.data, !.err = d.err]
       /\ req' = d.req
  /\ UNCHANGED <<config, RequestBody, stream, sent, pc, l, buf, err, inv,
                 invocations, capturedAt, workers>>

SpecGzip == InitGzip /\ [][GzipDecoderCall]_vars

\* ------------------------------------------------------------ reader alone
\* a maxBytesReader on its own: MaxBytesReader(r, n) over a stream, then
\* Read calls with buffers of any length, the stream serving them in chunks
\* of any size, ending or failing when it will
StreamAlphabet == {"a", "b"}
ReadBufSizes == {0, 1, 2, LargeBuf}

NoRead ==
  [plen |-> 0, asked |-> 0, got |-> 0, data |-> <<>>, err |-> NoErr,
   under |-> NoErr, before |-> RawReader, restBefore |-> <<>>]

InitReader ==
  /\ req = [Method |-> "POST", ContentType |-> <<>>, ContentEncoding |-> ""]
  /\ \E n \in 0..MaxReaderLimit, t \in TuplesUpTo(StreamAlphabet, MaxStreamLen) :
       unit = [op |-> "reader", limit |-> n, lr |-> MaxBytesReader(n),
               sent |-> Bytes(t), rest |-> Bytes(t), returned |-> <<>>,
               consumed |-> 0, calls |-> 0, last |-> NoRead]
  /\ Parked

\* l.Read(p) with len(p) = plen
ReaderReadCall ==
  /\ unit.op = "reader" /\ unit.calls < MaxReadCalls
  /\ \E plen \in ReadBufSizes :
       \E o \in MaxBytesRead(unit.lr, unit.rest, plen, TRUE) :
         unit' = [unit EXCEPT
                    !.lr = o.l, !.rest = o.rest, !.calls = @ + 1,
                    !.returned = BCat(@, o.data),
                    !.consumed = @ + (BLen(unit.rest) - BLen(o.rest)),
                    !.last = [plen |-> plen, asked |-> o.asked,
                              got |-> BLen(unit.rest) - BLen(o.rest),
                              data |-> o.data, err |-> o.err,
                              under |-> o.under, before |-> unit.lr,
                              restBefore |-> unit.rest]]
  /\ UNCHANGED <<config, req, RequestBody, stream, sent, pc, l, buf, err, inv,
                 invocations, capturedAt, workers>>

SpecReader == InitReader /\ [][ReaderReadCall]_vars

\* ------------------------------------------------------------ all decoders
\* one invocation of a handler whose Config may register each of the three
\* decoders, on a request whose body slot is empty: JSON, URL-encoded and
\* gzip bodies, well formed and not
AllDecoderKinds == {"gzip", "json", "form"}
DecoderBodies ==
  {Bytes(t) : t \in {<<>>, <<"{", "}">>, <<"{">>,
                     <<"a", "=", "1", "&", "b", "=", "2">>,
                     <<"a", "=", "1", "&", "a", "=", "2">>,
                     <<"a", "=", "%", "2">>}}
  \cup {Compress(Bytes(<<"{", "}">>)), GzipInput("cut", <<"{", "}">>)}

InitDecoders ==
  /\ config \in [Limit : {0, MaxLimit},
                 Decoders : TuplesUpTo(AllDecoderKinds, MaxDecoders),
                 Skipper : {"nil"},
                 ContentTypeValidate :
                   {"nil", "DefaultJSONAndFormContentTypeValidate"}]
  /\ req \in Requests
  /\ RequestBody = NilSlice
  /\ sent \in DecoderBodies
  /\ stream = [data |-> sent, closed |-> 0]
  /\ pc = "idle"
  /\ l = RawReader
  /\ buf = <<>>
  /\ err = NoErr
  /\ inv = NoInv(RequestBody, req)
  /\ invocations = 0
  /\ capturedAt = 0
  /\ unit = NoUnit
  /\ workers = <<>>

SpecDecoders == InitDecoders /\ [][Next]_vars

\* ------------------------------------------------------------ two requests
\* Two requests handled at once by one handler, a worker each, their steps
\* interleaved.  The streams deliver their bytes and the continuations
\* return nil, so that a request has one outcome when it is handled alone.
Workers == {1, 2}

\* where an error value lives: errInvalidJSON is the one *hes.Error of the
\* package variable; the handler and hes.Wrap build a new *hes.Error for each
\* call; the errors of io and compress/gzip are values of these packages
ErrAddr(e, w) ==
  IF e = NoErr THEN [site |-> "nil", by |-> 0]
  ELSE IF e = errInvalidJSON THEN [site |-> "errInvalidJSON", by |-> 0]
  ELSE IF e.kind = "hes" THEN [site |-> "new", by |-> w]
  ELSE [site |-> "library", by |-> 0]

PairConfigs == {NewDefault, [NewDefault EXCEPT !.Limit = MaxLimit]}
PairRequests ==
  [Method : {"GET", "POST"}, ContentType : {jsonContentType},
   ContentEncoding : {"", Gzip}]
PairBodies ==
  {Bytes(<<>>), Bytes(<<"{", "}">>), Bytes(<<"{">>),
   Compress(Bytes(<<"{", "}">>))}

Worker(r, body) ==
  [entryReq |-> r, req |-> r, sent |-> body, stream |-> body,
   RequestBody |-> NilSlice, pc |-> "idle", l |-> RawReader, buf |-> <<>>,
   err |-> NoErr, errAt |-> ErrAddr(NoErr, 0), nextCalls |-> 0]

InitPair ==
  /\ config \in PairConfigs
  /\ \E r1, r2 \in PairRequests, b1, b2 \in PairBodies :
       workers = <<Worker(r1, b1), Worker(r2, b2)>>
  /\ req = [Method |-> "POST", ContentType |-> <<>>, ContentEncoding |-> ""]
  /\ RequestBody = NilSlice
  /\ sent = <<>>
  /\ stream = [data |-> <<>>, closed |-> 0]
  /\ pc = "parked"
  /\ l = RawReader
  /\ buf = <<>>
  /\ err = NoErr
  /\ inv = NoInv(RequestBody, req)
  /\ invocations = 0
  /\ capturedAt = 0
  /\ unit = NoUnit

\* the worker w returns e
Return(w, e) ==
  [workers[w] EXCEPT !.pc = "returned", !.err = e, !.errAt = ErrAddr(e, w)]

\* lines 452-474 for the request of worker w
WorkerEnter(w) ==
  /\ workers[w].pc = "idle"
  /\ workers' =
       [workers EXCEPT ![w] =
          IF Gated(config, workers[w].req, workers[w].RequestBody)
          THEN [Return(w, NoErr) EXCEPT !.nextCalls = @ + 1]
          ELSE [workers[w] EXCEPT
                  !.pc = "reading",
                  !.l = IF Limit(config) > 0 THEN MaxBytesReader(Limit(config))
                        ELSE RawReader]]
  /\ UNCHANGED <<config, req, RequestBody, stream, sent, pc, l, buf, err, inv,
                 invocations, capturedAt, unit>>

\* lines 475-488: one Read of ioutil.ReadAll into a large buffer
WorkerRead(w) ==
  /\ workers[w].pc = "reading"
  /\ \E o \in ReaderRead(workers[w].l, workers[w].stream, LargeBuf, FALSE) :
       /\ o.err # ErrStream
       /\ workers' =
            [workers EXCEPT ![w] =
               LET read == [workers[w] EXCEPT !.l = o.l, !.stream = o.rest,
                                              !.buf = BCat(@, o.data)]
               IN
               IF o.err = NoErr THEN read
               ELSE IF Failed(ReadAllError(o.err))
               THEN [read EXCEPT
                       !.pc = "returned",
                       !.err = ReadError(ReadAllError(o.err)),
                       !.errAt = ErrAddr(ReadError(ReadAllError(o.err)), w)]
               ELSE [read EXCEPT !.pc = "decoding",
                                 !.RequestBody = Slice(read.buf)]]
  /\ UNCHANGED <<config, req, RequestBody, stream, sent, pc, l, buf, err, inv,
                 invocations, capturedAt, unit>>

\* lines 490-512 for the request of worker w
WorkerDecode(w) ==
  /\ workers[w].pc = "decoding"
  /\ LET sel == SelectDecoder(config.Decoders, workers[w].req) IN
     IF sel = 0
     THEN workers' = [workers EXCEPT ![w] =
                        [Return(w, NoErr) EXCEPT !.nextCalls = @ + 1]]
     ELSE \E d \in Decodes(config.Decoders[sel], workers[w].req,
                           workers[w].RequestBody.data) :
            workers' =
              [workers EXCEPT ![w] =
                 IF Failed(d.err)
                 THEN [Return(w, d.err) EXCEPT !.req = d.req]
                 ELSE [Return(w, NoErr) EXCEPT !.req = d.req,
                                               !.RequestBody = d.data,
                                               !.nextCalls = @ + 1]]
  /\ UNCHANGED <<config, req, RequestBody, stream, sent, pc, l, buf, err, inv,
                 invocations, capturedAt, unit>>

NextPair == \E w \in Workers : WorkerEnter(w) \/ WorkerRead(w) \/ WorkerDecode(w)

SpecPair == InitPair /\ [][NextPair]_vars

\* ------------------------------------------------------------ properties
Applicable(decoders, r) ==
  {i \in 1..Len(decoders) : Validate(decoders[i], r)}
SetMin(S) == CHOOSE x \in S : \A y \in S : x <= y
Returned == pc = "returned"
\* the stream delivered its bytes: no Read of it failed
StreamSound == inv.reading /\ ~inv.ioErr

\* C1: a request that reaches decoder selection has the transform of exactly
\* the first decoder whose Validate is true invoked, and no other; when no
\* Validate is true no transform is invoked and the continuation sees the
\* bytes of the stream unchanged in the body slot.
C1_FirstApplicableDecoder ==
  (Returned /\ inv.decoding) =>
    LET app == Applicable(config.Decoders, inv.entryReq) IN
    IF app = {}
    THEN inv.decoded = <<>> /\ inv.nextCalls = 1 /\ inv.slotAtNext = Slice(sent)
    ELSE inv.decoded = <<SetMin(app)>>

\* two decoders apply and only the first one ran
C1_Witness ==
  /\ Returned /\ inv.decoding
  /\ config.Decoders = <<"gzip", "json">>
  /\ Applicable(config.Decoders, inv.entryReq) = {1, 2}
  /\ inv.decoded = <<1>>
  /\ inv.nextCalls = 1

\* C2 (as claimed): a body of S bytes over a configured limit L > 0 is
\* answered with the non-exceptional 400 error of the package whose message
\* states S and L, however the stream splits the body.
C2_TooLargeIs400WithSizes ==
  (Returned /\ StreamSound /\ config.Limit > 0 /\ BLen(sent) > config.Limit) =>
    err = HesError(ErrCategory,
                   Sprintf("request body is %d bytes, it should be <= %d",
                           <<BLen(sent), config.Limit>>),
                   StatusBadRequest, FALSE, NoErr)

\* C3 (as claimed): a failed Read of the stream is answered with the
\* exceptional 500 error of the package carrying the stream's error text, and
\* a body over the limit is never answered with an exceptional 500 error.
C3_ReadFailureIsNotOverflow ==
  (Returned /\ inv.reading) =>
    /\ inv.ioErr =>
         err = HesError(ErrCategory, ErrorText(ErrStream),
                        StatusInternalServerError, TRUE, ErrStream)
    /\ (~inv.ioErr /\ Limit(config) > 0 /\ BLen(sent) > Limit(config)) =>
         ~(err.kind = "hes" /\ err.Exception
           /\ err.StatusCode = StatusInternalServerError)

\* C4 (as claimed): with Config.Limit = 0 a body of any length is read in
\* full and handed to decoder selection.
C4_LimitZeroIsUnlimited ==
  (Returned /\ StreamSound /\ config.Limit = 0) =>
    inv.decoding /\ buf = sent

\* C4 (amended): Config.Limit = 0 selects the default limit of 50 KiB: the
\* body reaches decoder selection, read in full, exactly when it has at most
\* 51200 bytes; a negative Limit enforces no limit.
C4_LimitZeroIsDefault ==
  (Returned /\ StreamSound) =>
    /\ config.Limit = 0 =>
         (inv.decoding <=> BLen(sent) <= defaultRequestBodyLimit)
    /\ config.Limit < 0 => inv.decoding
    /\ inv.decoding => buf = sent

\* Limit 0 and a body of 51201 bytes: rejected
C4_Witness ==
  /\ Returned /\ StreamSound /\ config.Limit = 0
  /\ BLen(sent) = defaultRequestBodyLimit + 1
  /\ ~inv.decoding /\ inv.nextCalls = 0 /\ err # NoErr

\* C5: with the body slot populated at entry the handler neither reads nor
\* closes the stream, changes no header, leaves the slot as it was, calls
\* the continuation once and returns its result.
C5_PopulatedSlotPassesThrough ==
  (Returned /\ ~inv.entrySlot.isNil) =>
    /\ inv.reads = 0 /\ inv.closes = 0 /\ ~inv.reading
    /\ stream = [data |-> sent, closed |-> 0]
    /\ req = inv.entryReq
    /\ RequestBody = inv.entrySlot
    /\ inv.nextCalls = 1 /\ err = inv.nextResult

\* a POST of JSON that every other gate lets through, the slot populated
C5_Witness ==
  /\ Returned /\ ~inv.entrySlot.isNil
  /\ ~Skipper(config, req) /\ req.Method = "POST"
  /\ req.ContentType = jsonContentType
  /\ config.Decoders # <<>>
  /\ inv.nextCalls = 1 /\ err = ErrDownstream

\* C6: when the skipper skips, or the method is none of POST, PUT, PATCH, or
\* the content-type gate refuses, the handler reads nothing, leaves the slot
\* as it was (empty, if it was empty), calls no Validate and no Decode, calls
\* the continuation once and returns its result.
C6_GatedOutPassesThrough ==
  (Returned /\ (\/ config.Skipper # "nil"
                \/ inv.entryReq.Method \notin {"POST", "PUT", "PATCH"}
                \/ ~ContentTypeValidate(config, inv.entryReq))) =>
    /\ inv.reads = 0 /\ ~inv.reading
    /\ stream.data = sent
    /\ RequestBody = inv.entrySlot
    /\ inv.validated = 0 /\ inv.decoded = <<>> /\ ~inv.decoding
    /\ inv.nextCalls = 1 /\ err = inv.nextResult /\ err \in NextResults

\* a GET of JSON with the slot empty
C6_Witness ==
  /\ Returned /\ inv.entryReq.Method = "GET"
  /\ inv.entryReq.ContentType = jsonContentType
  /\ config.Skipper = "nil" /\ inv.entrySlot.isNil
  /\ RequestBody.isNil /\ inv.nextCalls = 1

\* C7 (as claimed): once an invocation has read the stream and returned nil,
\* no later invocation on the request reads the stream, whatever the body.
C7_StreamReadAtMostOnce ==
  (capturedAt > 0 /\ invocations > capturedAt) =>
    pc # "reading" /\ ~inv.reading /\ inv.reads = 0

\* the handler fails on its own account: the stream fails, the body is over
\* the limit, or the transform of the selected decoder fails
OwnFailure ==
  /\ inv.reading
  /\ \/ inv.ioErr
     \/ Limit(config) > 0 /\ BLen(sent) > Limit(config)
     \/ LET app == Applicable(config.Decoders, inv.entryReq) IN
        /\ app # {}
        /\ Decode(config.Decoders[SetMin(app)], inv.entryReq, sent).err # NoErr

\* C8: the continuation is called at most once per invocation: never when
\* the handler fails on its own account, exactly once otherwise and then
\* with the final bytes in the body slot, and the handler returns what the
\* continuation returned.
C8_ContinuationOnce ==
  /\ inv.nextCalls <= 1
  /\ Returned =>
       IF OwnFailure
       THEN inv.nextCalls = 0 /\ err # NoErr
       ELSE /\ inv.nextCalls = 1
            /\ inv.slotAtNext = RequestBody
            /\ err = inv.nextResult

\* the JSON transform failed: the continuation was not called
C8_Witness ==
  /\ Returned /\ inv.decoded = <<1>> /\ config.Decoders[1] = "json"
  /\ err = errInvalidJSON /\ inv.nextCalls = 0

\* C9 (as claimed): when the handler returns an error of its own for a
\* request that entered with the body slot empty, the slot is still empty.
C9_NoBytesExposedOnFailure ==
  (Returned /\ inv.entrySlot.isNil /\ inv.nextCalls = 0) => RequestBody.isNil

SetMax(S) == CHOOSE x \in S : \A y \in S : x >= y
\* t without its leading and trailing whitespace
Trimmed(t) ==
  LET keep == {i \in 1..Len(t) : t[i] \notin Whitespace} IN
  IF keep = {} THEN <<>> ELSE SubSeq(t, SetMin(keep), SetMax(keep))
\* the first ';'-delimited field of a header value
FirstField(v) ==
  LET semis == {i \in 1..Len(v) : v[i] = ";"} IN
  IF semis = {} THEN v ELSE SubSeq(v, 1, SetMin(semis) - 1)

\* C10: the JSON decoder trims whitespace; an empty rest gives empty output
\* and no error; otherwise the trimmed bytes are returned, with no error,
\* exactly when they open with '{' and close with '}' or open with '[' and
\* close with ']', and every other input gives the invalid-JSON error (400,
\* not exceptional, the package category).  The decoder applies exactly
\* when the first ';'-delimited field of the content type is
\* application/json.
C10_JSONDecoder ==
  (unit.op = "json" /\ unit.done) =>
    LET t == Trimmed(unit.input)
        closed == \/ t[1] = "{" /\ t[Len(t)] = "}"
                  \/ t[1] = "[" /\ t[Len(t)] = "]"
    IN
    /\ IF t = <<>>
       THEN BLen(unit.data.data) = 0 /\ unit.err = NoErr
       ELSE IF closed
       THEN unit.data = Slice(Bytes(t)) /\ unit.err = NoErr
       ELSE /\ unit.err.kind = "hes"
            /\ unit.err.StatusCode = 400
            /\ ~unit.err.Exception
            /\ unit.err.Category = "elton-body-parser"
            /\ unit.err.Message = <<"invalid json format">>
    /\ unit.applies <=> FirstField(req.ContentType) = jsonContentType

\* "[a}" was refused and " {} " was trimmed and returned
C10_Witness ==
  /\ unit.op = "json" /\ unit.done
  /\ unit.input = <<"[", "a", "}">>
  /\ unit.err = errInvalidJSON
  /\ req.ContentType = jsonContentType \o <<";">>
  /\ unit.applies

\* what an encoded key or value of the payloads stands for
Decoded(token) ==
  CASE token = <<"%", "6", "2">> -> <<"b">>
    [] token = <<"%", "2", "2">> -> <<Quote>>
    [] token = <<"+">> -> <<" ">>
    [] OTHER -> token
\* every escape of the payload is a '%' with two hex digits
WellFormed(pairs) ==
  \A i \in 1..Len(pairs) : pairs[i].value # <<"%", "2">>
\* the pairs that name a key: all but the empty ones
Named(pairs) == SelectSeq(pairs, LAMBDA p : p # EmptyPair)
KeysOf(pairs) ==
  {Decoded(Named(pairs)[i].key) : i \in 1..Len(Named(pairs))}
\* the values of the key k, in the order of the payload
ValuesOf(pairs, k) ==
  LET sel == SelectSeq(Named(pairs), LAMBDA p : Decoded(p.key) = k) IN
  [i \in 1..Len(sel) |-> Decoded(sel[i].value)]
\* the place of the first pair of the key k
FirstAt(pairs, k) ==
  SetMin({i \in 1..Len(pairs) :
            pairs[i] # EmptyPair /\ Decoded(pairs[i].key) = k})
\* the keys in the order of their first occurrence
FirstOccurrence(pairs) ==
  CHOOSE o \in Orders(KeysOf(pairs)) :
    \A i, j \in DOMAIN o :
      i < j => FirstAt(pairs, o[i]) < FirstAt(pairs, o[j])

\* the JSON string holding v: '"' and '\' escaped
RECURSIVE Escaped(_)
Escaped(v) ==
  IF v = <<>> THEN <<>>
  ELSE (IF v[1] \in {Quote, "\\"} THEN <<"\\", v[1]>> ELSE <<v[1]>>)
       \o Escaped(Tail(v))
JSONString(v) == <<Quote>> \o Escaped(v) \o <<Quote>>
JSONMember(k, values) ==
  JSONString(k) \o <<":">>
  \o (IF Len(values) = 1 THEN JSONString(values[1])
      ELSE <<"[">>
           \o Join([i \in 1..Len(values) |-> JSONString(values[i])], ",")
           \o <<"]">>)
\* the JSON object of the payload, its members in the order o
JSONObject(pairs, o) ==
  <<"{">>
  \o Join([i \in DOMAIN o |-> JSONMember(o[i], ValuesOf(pairs, o[i]))], ",")
  \o <<"}">>

\* C11 (as claimed): for every well-formed payload the URL-encoded decoder
\* returns, with no error, a JSON object with one member per distinct key,
\* in some order: a JSON string holding the value of a key with one value,
\* a JSON array of the strings holding the values, in payload order, of a
\* key with more; nothing is dropped or duplicated.
C11_FormDecoderMembers ==
  (unit.op = "form" /\ WellFormed(unit.pairs)) =>
    \A i \in 1..Len(unit.results) :
      /\ unit.results[i].err = NoErr
      /\ \E o \in Orders(KeysOf(unit.pairs)) :
           unit.results[i].data = Slice(Bytes(JSONObject(unit.pairs, o)))

\* C12 (as claimed): the members of the emitted object are in the order in
\* which their keys first occur in the payload, and two runs of the decoder
\* on one payload return the same bytes.
C12_FormDecoderKeyOrder ==
  (unit.op = "form" /\ Len(unit.results) = 2) =>
    /\ unit.results[1].data = unit.results[2].data
    /\ unit.results[1].err = unit.results[2].err
    /\ \A i \in 1..2 :
         unit.results[i].err = NoErr =>
           unit.results[i].order = FirstOccurrence(unit.pairs)

\* C13: the gzip decoder applies exactly when Content-Encoding is "gzip";
\* once its transform has run, with or without an error, the header is
\* cleared and the decoder applies no more; the transform of the gzip
\* compression of B returns exactly B, and an input that is no complete
\* gzip stream returns an error.
C13_GzipDecoder ==
  (unit.op = "gzip" /\ unit.done) =>
    /\ unit.applies <=> unit.encoding = "gzip"
    /\ req.ContentEncoding = "" /\ ~Validate("gzip", req)
    /\ unit.kind = "compressed" =>
         unit.err = NoErr /\ unit.data = Slice(Bytes(unit.plain))
    /\ unit.kind # "compressed" => unit.err # NoErr

\* the two bytes "ab" under Content-Encoding gzip: an error, the header gone
C13_Witness ==
  /\ unit.op = "gzip" /\ unit.done
  /\ unit.kind = "two" /\ unit.encoding = "gzip" /\ unit.applies
  /\ unit.err # NoErr
  /\ req.ContentEncoding = ""

\* C14 (as claimed): every error the handler returns on its own account
\* (after it began to read, the continuation not called) is a classified
\* error with the package category, a message and a status code that is 5xx
\* when the error is exceptional and 4xx when it is not; the error for a
\* malformed URL-encoded payload is exceptional.
C14_ErrorsAreClassified ==
  (Returned /\ inv.reading /\ inv.nextCalls = 0) =>
    /\ err.kind = "hes"
    /\ err.Category = ErrCategory
    /\ err.Message # <<>>
    /\ IF err.Exception THEN err.StatusCode \in 500..599
       ELSE err.StatusCode \in 400..499
    /\ (inv.decoded # <<>> /\ config.Decoders[inv.decoded[1]] = "form") =>
         err.Exception

\* Config{} with the URL-encoded decoder added and nothing else set
FormOnly ==
  [Limit |-> 0, Decoders |-> <<"form">>, Skipper |-> "nil",
   ContentTypeValidate |-> "nil"]

\* C15 (as claimed): the handler of a Config that only registers the
\* URL-encoded decoder, on a POST of application/x-www-form-urlencoded with
\* a well-formed payload, reads the body, transcodes it and calls the
\* continuation with the JSON object in the body slot.
C15_FormOnlyConfigTranscodes ==
  (/\ Returned /\ config = FormOnly /\ ~inv.ioErr
   /\ inv.entryReq.Method = "POST"
   /\ inv.entryReq.ContentType = formURLEncodedContentType
   /\ \A d \in FormDecode(sent) : d.err = NoErr) =>
    /\ inv.reading /\ inv.decoded = <<1>>
    /\ inv.nextCalls = 1
    /\ \E d \in FormDecode(sent) : inv.slotAtNext = d.data

\* C16 (as claimed): the handler of NewDefault has the decoders gzip and
\* JSON, in this order, under the default gate and the default limit of 50
\* KiB.  On a POST, PUT or PATCH whose content type is not application/json
\* it reads nothing and calls the continuation with the body slot empty; on
\* one whose content type is application/json it reads the body, up to the
\* limit, and applies the gzip decoder when Content-Encoding is gzip and the
\* JSON decoder otherwise.
C16_NewDefault ==
  (/\ Returned /\ config = NewDefault /\ inv.entrySlot.isNil
   /\ inv.entryReq.Method \in {"POST", "PUT", "PATCH"}) =>
    IF FirstField(inv.entryReq.ContentType) # jsonContentType
    THEN /\ ~inv.reading /\ inv.reads = 0 /\ stream.data = sent
         /\ inv.nextCalls = 1 /\ inv.slotAtNext.isNil
    ELSE /\ inv.reading
         /\ StreamSound =>
              (inv.decoding <=> BLen(sent) <= defaultRequestBodyLimit)
         /\ inv.decoding =>
              /\ Len(inv.decoded) = 1
              /\ config.Decoders[inv.decoded[1]] =
                   (IF inv.entryReq.ContentEncoding = Gzip THEN "gzip"
                    ELSE "json")

\* ioutil.ReadAll on a reader whose stream delivers all its bytes: the bytes
\* read and the error
RECURSIVE ReadAllOf(_, _, _)
ReadAllOf(lr, data, acc) ==
  LET o == CHOOSE x \in ReaderRead(lr, data, LargeBuf, FALSE) :
             x.err # ErrStream /\ (x.err = EOF => x.data = <<>>)
  IN
  IF o.err = NoErr THEN ReadAllOf(o.l, o.rest, BCat(acc, o.data))
  ELSE [buf |-> BCat(acc, o.data), err |-> ReadAllError(o.err)]

\* the outcome of the handler of conf on the request r with the given body
\* and an empty body slot, handled alone, the continuation returning nil
Alone(conf, r, body) ==
  IF Gated(conf, r, NilSlice)
  THEN [err |-> NoErr, RequestBody |-> NilSlice, req |-> r, nextCalls |-> 1]
  ELSE LET read == ReadAllOf(IF Limit(conf) > 0
                             THEN MaxBytesReader(Limit(conf)) ELSE RawReader,
                             body, <<>>)
           sel == SelectDecoder(conf.Decoders, r)
       IN
       IF Failed(read.err)
       THEN [err |-> ReadError(read.err), RequestBody |-> NilSlice,
             req |-> r, nextCalls |-> 0]
       ELSE IF sel = 0
       THEN [err |-> NoErr, RequestBody |-> Slice(read.buf), req |-> r,
             nextCalls |-> 1]
       ELSE LET d == Decode(conf.Decoders[sel], r, read.buf) IN
            IF Failed(d.err)
            THEN [err |-> d.err, RequestBody |-> Slice(read.buf),
                  req |-> d.req, nextCalls |-> 0]
            ELSE [err |-> NoErr, RequestBody |-> d.data, req |-> d.req,
                  nextCalls |-> 1]

\* C17 (as claimed): under every interleaving of two requests in one
\* handler, a request that has returned has the error, the body slot, the
\* headers and the continuation call it has when handled alone, and the two
\* requests share no mutable value: two *hes.Error they return are never the
\* same object.
C17_RequestsAreIndependent ==
  /\ \A w \in Workers :
       workers[w].pc = "returned" =>
         [err |-> workers[w].err, RequestBody |-> workers[w].RequestBody,
          req |-> workers[w].req, nextCalls |-> workers[w].nextCalls]
           = Alone(config, workers[w].entryReq, workers[w].sent)
  /\ \A w, v \in Workers :
       (/\ w # v
        /\ workers[w].pc = "returned" /\ workers[v].pc = "returned"
        /\ workers[w].err.kind = "hes" /\ workers[v].err.kind = "hes") =>
         workers[w].errAt # workers[v].errAt

\* the "too large" error of the reader, whatever number it names
IsTooLarge(e) ==
  e.kind = "raw" /\ e.text[1] = "request body is too large, it should be <= %d"
OnReader == unit.op = "reader"

\* C18: a reader created with limit n returns, over all its Read calls, at
\* most n bytes, and they are the first bytes of the stream; once the stream
\* has delivered more than n bytes the reader holds the "too large" error
\* and the Read that saw them returned it; over a stream of more than n
\* bytes the reader never reports the end of the stream; over a stream of
\* exactly n bytes it never reports "too large", and the error it ends with,
\* unless the stream failed, is the stream's io.EOF after all n bytes.
C18_NeverMoreThanLimit ==
  OnReader =>
    /\ BLen(unit.returned) <= unit.limit
    /\ unit.returned = BTake(unit.sent, BLen(unit.returned))
    /\ unit.consumed > unit.limit =>
         IsTooLarge(unit.lr.err) /\ BLen(unit.returned) = unit.limit
    /\ (unit.last.got > 0 /\ unit.consumed > unit.limit) =>
         IsTooLarge(unit.last.err)
    /\ BLen(unit.sent) > unit.limit => unit.lr.err # EOF /\ unit.last.err # EOF
    /\ BLen(unit.sent) = unit.limit =>
         /\ ~IsTooLarge(unit.lr.err) /\ ~IsTooLarge(unit.last.err)
         /\ unit.lr.err \notin {NoErr, ErrStream} =>
              unit.lr.err = EOF /\ unit.returned = unit.sent

\* limit 2 over 3 bytes: two bytes came back, then the error
C18_Witness ==
  /\ OnReader /\ unit.limit = 2 /\ BLen(unit.sent) = 3
  /\ unit.consumed = 3 /\ BLen(unit.returned) = 2
  /\ IsTooLarge(unit.last.err)

\* C19: once a Read has detected the overflow the budget is zero, and every
\* later Read, whatever its buffer, returns no byte and the same error and
\* does not call Read on the stream.
C19_OverflowIsSticky ==
  OnReader =>
    /\ IsTooLarge(unit.lr.err) => unit.lr.n = 0
    /\ IsTooLarge(unit.last.before.err) =>
         /\ unit.last.data = <<>>
         /\ unit.last.err = unit.last.before.err
         /\ unit.last.asked = 0 /\ unit.last.got = 0
         /\ unit.lr = unit.last.before
         /\ unit.rest = unit.last.restBefore

\* a Read with a large buffer after the overflow, bytes still in the stream
C19_Witness ==
  /\ OnReader /\ IsTooLarge(unit.last.before.err)
  /\ unit.last.plen = LargeBuf /\ unit.rest # <<>>
  /\ unit.last.err = unit.last.before.err

\* C20: a Read hands the stream a buffer of at most budget + 1 bytes, so
\* the stream is never asked for more than limit + 1 bytes in all; when the
\* stream produces k <= budget bytes the Read returns exactly these bytes
\* and the stream's error, io.EOF included, and the budget goes down by k;
\* the budget stays within 0..limit.
C20_BudgetAccounting ==
  OnReader =>
    /\ unit.last.asked <= unit.last.before.n + 1
    /\ unit.last.asked <= unit.last.plen
    /\ unit.consumed <= unit.limit + 1
    /\ unit.lr.n \in 0..unit.limit
    /\ (unit.last.asked > 0 /\ unit.last.got <= unit.last.before.n) =>
         /\ unit.last.data = BTake(unit.last.restBefore, unit.last.got)
         /\ unit.lr.n = unit.last.before.n - unit.last.got
         /\ unit.last.err = unit.last.under

\* the last byte within the budget arrived together with io.EOF
C20_Witness ==
  /\ OnReader /\ unit.last.asked = 2 /\ unit.last.got = 1
  /\ unit.last.before.n = 1 /\ unit.lr.n = 0
  /\ unit.last.err = EOF /\ unit.last.under = EOF

\* C21: a handler that set out to read has the stream closed when it
\* returns, whether the read succeeded, failed or ran over the limit, with
\* or without a maxBytesReader in between (closing the reader closes the
\* stream); a handler that was gated out has neither read nor closed it.
C21_StreamClosedOnReturn ==
  Returned =>
    IF inv.reading
    THEN stream.closed >= 1 /\ inv.closes >= 1
    ELSE /\ stream = [data |-> sent, closed |-> 0]
         /\ inv.reads = 0 /\ inv.closes = 0
         /\ Gated(config, inv.entryReq, inv.entrySlot)

\* the body ran over the limit: only the deferred Close of the reader ran
C21_Witness ==
  /\ Returned /\ inv.reading /\ ~inv.ioErr
  /\ l.wrapped /\ l.err # NoErr /\ l.err # EOF
  /\ ~inv.decoding /\ inv.closes = 1 /\ stream.closed = 1

\* C22 (as claimed): the default gate and the Validate of the JSON decoder
\* agree on the content type of every request, so that under the default
\* gate, with the JSON decoder registered, a body that is read and stored in
\* the body slot of a request without Content-Encoding gzip has been through
\* the JSON decoder.
C22_GateAgreesWithJSONDecoder ==
  Returned =>
    /\ DefaultJSONContentTypeValidate(inv.entryReq)
         <=> Validate("json", inv.entryReq)
    /\ (/\ inv.decoding
        /\ config.ContentTypeValidate = "nil"
        /\ \E i \in 1..Len(config.Decoders) : config.Decoders[i] = "json"
        /\ inv.entryReq.ContentEncoding # Gzip) =>
         /\ inv.decoded # <<>>
         /\ config.Decoders[inv.decoded[1]] = "json"

====
